---- MODULE Spec2Model ----
(***************************************************************************)
(* DVUpload (src/dvupload.py): direct upload of one file to a Dataverse    *)
(* dataset.  upload() negotiates a pre-signed destination (GET), sends the *)
(* bytes to storage (__upload / __upload_multipart), and attaches the file *)
(* to the dataset (POST).                                                  *)
(*                                                                         *)
(* The environment chooses, for every HTTP call, either a response (status *)
(* code and headers) or a transport error (requests ConnectionError), and  *)
(* for every file operation either success or an OSError.  The negotiation *)
(* response is well formed: it carries either `url`, or `urls` together    *)
(* with `partSize`, `complete` and `abort`; response bodies are JSON.      *)
(***************************************************************************)
EXTENDS Integers, Sequences, FiniteSets, TLC

\* ---------------------------------------------------------------- bounds
MaxFileLen == 3
MaxParts == 3
MaxPartSize == 2

\* ------------------------------------------------------------- constants
HTTP_OK == 200
Statuses == {HTTP_OK, 403}
Q == "\""
ServerUrl == "server_url"

VARIABLES
    pc,              \* position of the control flow of upload()
    file,            \* byte content of `filename` on disk
    f,               \* the file object of `with open(filename, 'rb') as f`
    data_file,       \* what f.read() gave on the single-part path
    presigned_data,  \* presigned_url.json()["data"]
    calls,           \* HTTP calls issued by this upload() call, in issue order
    md5sum,          \* hashlib.md5() accumulator
    e_tags,          \* part_id -> completion token
    part,            \* position of the for loop in s3_bucket_urls.items()
    upload_meta,     \* what __upload returned
    file_metadata,   \* the dict upload() builds and returns
    exc,             \* exception that left upload(), "" when none
    prev             \* what the previous upload() call of the batch gave its caller

vars == <<pc, file, f, data_file, presigned_data, calls, md5sum, e_tags, part,
          upload_meta, file_metadata, exc, prev>>

\* --------------------------------------------------------------- helpers
Min(a, b) == IF a < b THEN a ELSE b

Range(s) == {s[i] : i \in DOMAIN s}

\* dict.get(k) is not None / `k in dict`
Has(d, k) == k \in DOMAIN d

\* all orders in which a JSON object can list the part indices 1..n
Orders(n) == {s \in [1..n -> 1..n] : \A i, j \in 1..n : s[i] = s[j] => i = j}

\* hashlib.md5(): a running digest folded over the bytes in feed order
Md5Space == 2 ^ 16
Md5Init == 7

RECURSIVE Md5Update(_, _)
Md5Update(h, data) ==
    IF data = <<>> THEN h
    ELSE Md5Update((h * 31 + Head(data) + 1) % Md5Space, Tail(data))

HexDigits == <<"0", "1", "2", "3", "4", "5", "6", "7",
               "8", "9", "a", "b", "c", "d", "e", "f">>

RECURSIVE Hex(_, _)
Hex(n, width) ==
    IF width = 0 THEN <<>>
    ELSE Append(Hex(n \div 16, width - 1), HexDigits[(n % 16) + 1])

\* md5sum.hexdigest()
Hexdigest(h) == Hex(h, 4)

Checksum(h) == [type |-> "MD5", value |-> Hexdigest(h)]

\* f.read(part_size) / f.read() at offset pos
Read(content, pos, n) == SubSeq(content, pos + 1, Min(pos + n, Len(content)))
ReadAll(content, pos) == SubSeq(content, pos + 1, Len(content))

\* upload_request.headers['ETag'].replace('"', '')
StripQuotes(s) == SelectSeq(s, LAMBDA c : c # Q)
HasHeader(resp, name) == \E h \in resp.headers : h[1] = name
Header(resp, name) == (CHOOSE h \in resp.headers : h[1] = name)[2]

\* ----------------------------------------------------------- environment
\* the files: one per length, every byte of a file distinct from the others
Files == {[i \in 1..k |-> i] : k \in 0..MaxFileLen}

PartUrl(part_id) == <<"s3", ToString(part_id)>>
SingleUrl == <<"s3", "single">>
NegotiateUrl == <<ServerUrl, "/api/datasets/:persistentId/uploadurls">>
AddUrl == <<ServerUrl, "/api/datasets/:persistentId/add">>
CompletePath == "/complete"
AbortPath == "/abort"

SingleDestinations == {[storageIdentifier |-> "sid", url |-> SingleUrl]}

MultipartDestinations ==
    {[storageIdentifier |-> "sid", urls |-> order, partSize |-> ps,
      complete |-> CompletePath, abort |-> AbortPath] :
        order \in UNION {Orders(n) : n \in 1..MaxParts}, ps \in 1..MaxPartSize}

Destinations == SingleDestinations \cup MultipartDestinations

ConnectionError == [exception |-> "ConnectionError"]
Raised(resp) == Has(resp, "exception")

\* responses of the repository: a status code, no header of interest
ServerResponses == {[status |-> s, headers |-> {}] : s \in Statuses}

\* responses of the storage backend to a PUT on `url`: a status code and
\* possibly an ETag header, whose quoted value the backend derives from the part
ETagOf(url) == <<Q, url[2], Q>>
StorageResponses(url) ==
    {[status |-> s, headers |-> hs] :
        s \in Statuses, hs \in {{}, {<<"ETag", ETagOf(url)>>}}}

IoOutcomes == {"ok", "OSError"}

Request(method, url, body, resp) ==
    [method |-> method, url |-> url, body |-> body, resp |-> resp]

NoBody == <<>>
None == <<>>
NoMeta == [status |-> "unset"]
Closed == [open |-> FALSE, pos |-> 0]

\* ------------------------------------------------------------------ Init
\* the `filename` argument: directories, then the base name as stem and extension
Filename == [dirs |-> <<"data">>, stem |-> "survey", ext |-> "sav"]

\* the `description` argument: None or a text
NoDescription == [given |-> FALSE]
Descriptions == {NoDescription, [given |-> TRUE, text |-> "about"]}

\* lines 12-19: the built-in extension -> MIME type map
MIME_TYPES ==
    ("bib" :> "text/x-bibtex") @@ ("sav" :> "application/x-spss-sav")
    @@ ("7z" :> "application/x-7z-compressed") @@ ("dat" :> "text/x-fixed-field")
    @@ ("root" :> "application/octet-stream")
    @@ ("ipynb" :> "application/x-ipynb+json")

\* mimetypes.guess_type(filename)[0]: the system tables, None when not listed
SystemTypes == ("txt" :> "text/plain")

\* lines 40-42
MimeType(name) ==
    IF name.ext \in DOMAIN SystemTypes THEN SystemTypes[name.ext]
    ELSE IF name.ext \in DOMAIN MIME_TYPES THEN MIME_TYPES[name.ext]
    ELSE "mime-type/not.available"

\* line 39: filename.split(os.sep)[-1]
BaseName(name) == <<name.stem, ".", name.ext>>

\* mutant of NewMetadata: no description entry when none was given
NewMetadataNoDefault(name, description) ==
    [status |-> "ERROR",
     data |-> IF description.given
              THEN [categories |-> <<"Data">>, fileName |-> BaseName(name),
                    mimeType |-> MimeType(name), description |-> description.text]
              ELSE [categories |-> <<"Data">>, fileName |-> BaseName(name),
                    mimeType |-> MimeType(name)]]

\* lines 37-46: file_metadata as upload() builds it before the negotiation
NewMetadata(name, description) ==
    [status |-> "ERROR",
     data |-> [categories |-> <<"Data">>,
               fileName |-> BaseName(name),
               mimeType |-> MimeType(name),
               description |-> IF description.given THEN description.text ELSE ""]]

Fresh ==
    /\ f = Closed
    /\ data_file = <<>>
    /\ presigned_data = <<>>
    /\ calls = <<>>
    /\ md5sum = Md5Init
    /\ e_tags = <<>>
    /\ part = 1
    /\ upload_meta = NoMeta
    /\ file_metadata = NewMetadata(Filename, NoDescription)
    /\ exc = ""

Init ==
    /\ pc = "idle"
    /\ file = <<>>
    /\ prev = [kind |-> "none", status |-> "none"]
    /\ Fresh

\* ----------------------------------------------------- pieces of the code
\* dict[key] = value
Put(d, key, value) ==
    [k \in DOMAIN d \cup {key} |-> IF k = key THEN value ELSE d[k]]

\* json.dumps of a dict: the members of the JSON object
JsonDumps(d) == {<<k, d[k]>> : k \in DOMAIN d}

\* mutant of NegotiationRejected: the status of the negotiation is not looked at
NegotiationNeverRejected(resp) == FALSE

\* line 53: presigned_url.status_code != http.HTTPStatus.OK
NegotiationRejected(resp) == resp.status # HTTP_OK

\* mutant of IsMultipart: the multipart path is taken for more than one part URL
IsMultipartMoreThanOne(d) == Has(d, "urls") /\ Len(d.urls) > 1

\* line 127: presigned_data.get("urls") is not None
IsMultipart(d) == Has(d, "urls")

\* line 140: not upload_request.status_code == http.HTTPStatus.OK
SingleRejected(resp) == ~(resp.status = HTTP_OK)

\* mutant of StoreETag: the token is keyed by a running counter, not by part_id
StoreETagByCount(tags, part_id, resp) ==
    Put(tags, Cardinality(DOMAIN tags) + 1, StripQuotes(Header(resp, "ETag")))

\* line 99: e_tags[part_id] = upload_request.headers['ETag'].replace('"', '')
StoreETag(tags, part_id, resp) ==
    Put(tags, part_id, StripQuotes(Header(resp, "ETag")))

\* line 105: not complete_mp_upload.status_code == http.HTTPStatus.OK
CompleteRejected(resp) == ~(resp.status = HTTP_OK)

\* mutant of TransferSucceeded: any returned transfer result counts as success
TransferAlwaysSucceeded(meta) == TRUE

\* line 62: upload_meta["status"] == "OK"
TransferSucceeded(meta) == meta.status = "OK"

\* mutant of LinkSucceeded: the status of the metadata POST is not looked at
LinkAlwaysSucceeded(resp) == TRUE

\* line 77: link_file.status_code == http.HTTPStatus.OK
LinkSucceeded(resp) == resp.status = HTTP_OK

\* mutant of Accumulate: a new digest is started for every chunk
AccumulatePerChunk(h, chunk) == Md5Update(Md5Init, chunk)

\* lines 95 and 136: md5sum.update(chunk)
Accumulate(h, chunk) == Md5Update(h, chunk)

\* mutant of WithExit: leaving the block does not close the file
WithExitLeak(fh) == fh

\* lines 90 and 133: leaving the `with open(...) as f` block, by its end, by
\* a return or by an exception, closes the file
WithExit(fh) == Closed

\* lines 111-114 and 143-146 / 109, 119, 141: what the transfer stage returns
TransferOK(h) == [status |-> "OK", checksum |-> Checksum(h)]
TransferFailed == [status |-> "FAILED", checksum |-> None]

\* e.with_traceback() is called without its argument (lines 70, 123, 153):
\* formatting the log message raises TypeError inside the handler
WithTraceback == "TypeError"

\* lines 67-71: the exception that leaves upload() when `e` reaches its try
\* block; only ConnectionError has a handler, and that handler raises
UploadExcept(e) == IF e = "ConnectionError" THEN WithTraceback ELSE e

\* what the caller of upload() gets: the kind of outcome and the status
Kind ==
    IF pc = "raised" THEN "Raised"
    ELSE IF ~Has(file_metadata.data, "storageIdentifier") THEN "NegotiationFailed"
    ELSE IF ~TransferSucceeded(upload_meta) THEN "TransferFailed"
    ELSE IF file_metadata.status # "OK" THEN "LinkFailed"
    ELSE "Success"

Outcome ==
    [kind |-> Kind,
     status |-> IF pc = "raised" THEN "raised" ELSE file_metadata.status]

\* ------------------------------------------------------------- upload()
\* lines 35-46: a new call; stat the file and build file_metadata
StartCall ==
    /\ pc \in {"idle", "returned", "raised"}
    /\ \E content \in Files : file' = content
    /\ pc' = "negotiate"
    /\ f' = Closed
    /\ data_file' = <<>>
    /\ presigned_data' = <<>>
    /\ calls' = <<>>
    /\ md5sum' = Md5Init
    /\ e_tags' = <<>>
    /\ part' = 1
    /\ upload_meta' = NoMeta
    /\ \E description \in Descriptions :
          file_metadata' = NewMetadata(Filename, description)
    /\ exc' = ""

\* upload() is called; nothing of an earlier call is kept
UploadEntry == StartCall /\ UNCHANGED prev

\* a batch caller: it calls upload() for the first file, and after each call
\* keeps what that call gave it and calls upload() for the next file
FirstInBatch == pc = "idle" /\ StartCall /\ UNCHANGED prev
NextInBatch == pc # "idle" /\ StartCall /\ prev' = Outcome

\* lines 49-58 and 67-71: the negotiation GET
Negotiate ==
    /\ pc = "negotiate"
    /\ \E resp \in ServerResponses \cup {ConnectionError} :
        /\ calls' = Append(calls,
                Request("GET", NegotiateUrl, [size |-> Len(file)], resp))
        /\ IF Raised(resp)
           THEN /\ pc' = "raised"
                /\ exc' = UploadExcept("ConnectionError")
                /\ UNCHANGED <<presigned_data, file_metadata>>
           ELSE IF NegotiationRejected(resp)
           THEN /\ pc' = "returned"
                /\ UNCHANGED <<presigned_data, file_metadata, exc>>
           ELSE /\ \E d \in Destinations : presigned_data' = d
                /\ file_metadata' =
                     [file_metadata EXCEPT !.data =
                        Put(@, "storageIdentifier", presigned_data'.storageIdentifier)]
                /\ pc' = "upload"
                /\ UNCHANGED exc
    /\ UNCHANGED <<file, data_file, f, md5sum, e_tags, part, upload_meta, prev>>

\* lines 125-136: __upload on a single destination reads the whole file
SingleRead ==
    /\ pc = "upload"
    /\ ~IsMultipart(presigned_data)
    /\ \E io \in IoOutcomes :
        IF io # "ok"
        THEN \* open() or f.read() raises: handler of line 152, line 153 raises
             /\ pc' = "raised"
             /\ exc' = UploadExcept(WithTraceback)
             /\ UNCHANGED <<f, data_file, md5sum>>
        ELSE /\ data_file' = ReadAll(file, 0)
             /\ f' = [open |-> TRUE, pos |-> Len(file)]
             /\ md5sum' = Accumulate(Md5Init, data_file')
             /\ pc' = "single_put"
             /\ UNCHANGED exc
    /\ UNCHANGED <<file, presigned_data, calls, e_tags, part, upload_meta,
                   file_metadata, prev>>

\* lines 137-154: the storage PUT of the single-part path; the file closes
SinglePut ==
    /\ pc = "single_put"
    /\ f' = WithExit(f)
    /\ \E resp \in StorageResponses(presigned_data.url) \cup {ConnectionError} :
        /\ calls' = Append(calls, Request("PUT", presigned_data.url, data_file, resp))
        /\ IF Raised(resp)
           THEN \* handler of line 152, line 153 raises
                /\ pc' = "raised"
                /\ exc' = UploadExcept(WithTraceback)
                /\ UNCHANGED upload_meta
           ELSE /\ upload_meta' = IF SingleRejected(resp)
                                  THEN TransferFailed
                                  ELSE TransferOK(md5sum)
                /\ pc' = "check"
                /\ UNCHANGED exc
    /\ UNCHANGED <<file, presigned_data, data_file, md5sum, e_tags, part,
                   file_metadata, prev>>

\* ------------------------------------------------- __upload_multipart
\* requests.delete(f'{self.server_url}{presigned_data["abort"]}')
AbortRequest(resp) ==
    Request("DELETE", <<ServerUrl, presigned_data.abort>>, NoBody, resp)

\* line 106: the abort after a rejected complete PUT
AbortOnRejected(log, resp) == Append(log, AbortRequest(resp))

\* mutant of AbortOnKeyError: the handler returns without the abort call
NoAbortOnKeyError(log, resp) == log

\* line 118: the abort of `except KeyError`
AbortOnKeyError(log, resp) == Append(log, AbortRequest(resp))

\* line 122: the abort of `except Exception`
AbortOnException(log, resp) == Append(log, AbortRequest(resp))

\* lines 127-129 and 85-92: dispatch on `urls`, open the file
MpOpen ==
    /\ pc = "upload"
    /\ IsMultipart(presigned_data)
    /\ \E io \in IoOutcomes :
        IF io # "ok"
        THEN /\ pc' = "mp_Exception"
             /\ UNCHANGED <<f, md5sum, e_tags, part>>
        ELSE /\ f' = [open |-> TRUE, pos |-> 0]
             /\ e_tags' = <<>>
             /\ md5sum' = Md5Init
             /\ part' = 1
             /\ pc' = "mp_loop"
    /\ UNCHANGED <<file, data_file, presigned_data, calls, upload_meta, file_metadata, exc, prev>>

\* lines 93-100: one iteration of the loop over s3_bucket_urls.items()
MpPart ==
    /\ pc = "mp_loop"
    /\ part <= Len(presigned_data.urls)
    /\ \E io \in IoOutcomes,
          resp \in StorageResponses(PartUrl(presigned_data.urls[part]))
                    \cup {ConnectionError} :
        IF io # "ok"
        THEN \* f.read raises; the with block closes the file
             /\ f' = WithExit(f)
             /\ pc' = "mp_Exception"
             /\ UNCHANGED <<calls, md5sum, e_tags, part>>
        ELSE LET part_id == presigned_data.urls[part]
                 chunk == Read(file, f.pos, presigned_data.partSize)
             IN /\ md5sum' = Accumulate(md5sum, chunk)
                /\ calls' = Append(calls, Request("PUT", PartUrl(part_id), chunk, resp))
                /\ IF Raised(resp)
                   THEN /\ f' = WithExit(f)
                        /\ pc' = "mp_Exception"
                        /\ UNCHANGED <<e_tags, part>>
                   ELSE IF ~HasHeader(resp, "ETag")
                   THEN \* headers['ETag'] raises KeyError
                        /\ f' = WithExit(f)
                        /\ pc' = "mp_KeyError"
                        /\ UNCHANGED <<e_tags, part>>
                   ELSE /\ e_tags' = StoreETag(e_tags, part_id, resp)
                        /\ f' = [f EXCEPT !.pos = @ + Len(chunk)]
                        /\ part' = part + 1
                        /\ pc' = "mp_loop"
    /\ UNCHANGED <<file, data_file, presigned_data, upload_meta, file_metadata, exc, prev>>

\* lines 100-114: the loop is over, the file closes, the complete PUT
MpComplete ==
    /\ pc = "mp_loop"
    /\ part > Len(presigned_data.urls)
    /\ f' = WithExit(f)
    /\ \E resp \in ServerResponses \cup {ConnectionError} :
        /\ calls' = Append(calls,
                Request("PUT", <<ServerUrl, presigned_data.complete>>,
                        JsonDumps(e_tags), resp))
        /\ IF Raised(resp)
           THEN pc' = "mp_Exception" /\ UNCHANGED upload_meta
           ELSE IF CompleteRejected(resp)
           THEN pc' = "mp_rejected" /\ UNCHANGED upload_meta
           ELSE pc' = "check" /\ upload_meta' = TransferOK(md5sum)
    /\ UNCHANGED <<file, data_file, presigned_data, md5sum, e_tags, part, file_metadata, exc, prev>>

\* lines 106-109: the complete PUT was rejected
MpAbortRejected ==
    /\ pc = "mp_rejected"
    /\ \E resp \in ServerResponses \cup {ConnectionError} :
        /\ calls' = AbortOnRejected(calls, resp)
        /\ IF Raised(resp)
           THEN pc' = "mp_Exception" /\ UNCHANGED upload_meta
           ELSE pc' = "check" /\ upload_meta' = TransferFailed
    /\ UNCHANGED <<file, data_file, f, presigned_data, md5sum, e_tags, part, file_metadata,
                   exc, prev>>

\* lines 116-119: except KeyError
MpExceptKeyError ==
    /\ pc = "mp_KeyError"
    /\ \E resp \in ServerResponses \cup {ConnectionError} :
        /\ calls' = AbortOnKeyError(calls, resp)
        /\ IF Raised(resp)
           THEN /\ pc' = "raised"
                /\ exc' = UploadExcept("ConnectionError")
                /\ UNCHANGED upload_meta
           ELSE /\ pc' = "check"
                /\ upload_meta' = TransferFailed
                /\ UNCHANGED exc
    /\ UNCHANGED <<file, data_file, f, presigned_data, md5sum, e_tags, part, file_metadata, prev>>

\* lines 121-123: except Exception; line 123 raises while formatting the log
MpExceptException ==
    /\ pc = "mp_Exception"
    /\ \E resp \in ServerResponses \cup {ConnectionError} :
        /\ calls' = AbortOnException(calls, resp)
        /\ pc' = "raised"
        /\ exc' = IF Raised(resp)
                  THEN UploadExcept("ConnectionError")
                  ELSE UploadExcept(WithTraceback)
    /\ UNCHANGED <<file, data_file, f, presigned_data, md5sum, e_tags, part, upload_meta,
                   file_metadata, prev>>

\* mutant of CheckUpload: a failed transfer is tried again
CheckUploadRetry ==
    /\ pc = "check"
    /\ IF TransferSucceeded(upload_meta)
       THEN /\ file_metadata' =
                 [file_metadata EXCEPT !.data = Put(@, "checksum", upload_meta.checksum)]
            /\ pc' = "link"
       ELSE /\ pc' = "upload"
            /\ UNCHANGED file_metadata
    /\ UNCHANGED <<file, data_file, f, presigned_data, calls, md5sum, e_tags, part,
                   upload_meta, exc, prev>>

\* lines 62-65: upload() looks at what the transfer stage returned
CheckUpload ==
    /\ pc = "check"
    /\ IF TransferSucceeded(upload_meta)
       THEN /\ file_metadata' =
                 [file_metadata EXCEPT !.data = Put(@, "checksum", upload_meta.checksum)]
            /\ pc' = "link"
       ELSE /\ pc' = "returned"
            /\ UNCHANGED file_metadata
    /\ UNCHANGED <<file, data_file, f, presigned_data, calls, md5sum, e_tags, part,
                   upload_meta, exc, prev>>

\* lines 73-82: the metadata POST, outside the try block
LinkFile ==
    /\ pc = "link"
    /\ \E resp \in ServerResponses \cup {ConnectionError} :
        /\ calls' = Append(calls,
                Request("POST", AddUrl, JsonDumps(file_metadata.data), resp))
        /\ IF Raised(resp)
           THEN /\ pc' = "raised"
                /\ exc' = "ConnectionError"
                /\ UNCHANGED file_metadata
           ELSE /\ pc' = "returned"
                /\ file_metadata' = IF LinkSucceeded(resp)
                                    THEN [file_metadata EXCEPT !.status = "OK"]
                                    ELSE file_metadata
                /\ UNCHANGED exc
    /\ UNCHANGED <<file, data_file, f, presigned_data, md5sum, e_tags, part, upload_meta, prev>>

Next ==
    \/ UploadEntry
    \/ Negotiate
    \/ SingleRead
    \/ SinglePut
    \/ MpOpen
    \/ MpPart
    \/ MpComplete
    \/ MpAbortRejected
    \/ MpExceptKeyError
    \/ MpExceptException
    \/ CheckUpload
    \/ LinkFile

Spec == Init /\ [][Next]_vars

\* the same calls made by the batch caller
NextBatch ==
    \/ FirstInBatch
    \/ NextInBatch
    \/ Negotiate
    \/ SingleRead
    \/ SinglePut
    \/ MpOpen
    \/ MpPart
    \/ MpComplete
    \/ MpAbortRejected
    \/ MpExceptKeyError
    \/ MpExceptException
    \/ CheckUpload
    \/ LinkFile

SpecBatch == Init /\ [][NextBatch]_vars

\* ------------------------------------------------------- reading the log
Ended == pc \in {"returned", "raised"}
Answered(c) == ~Raised(c.resp)
AnsweredOK(c) == Answered(c) /\ c.resp.status = HTTP_OK
AnsweredNotOK(c) == Answered(c) /\ c.resp.status # HTTP_OK

Negotiated == presigned_data # <<>>
MultipartNegotiated == Negotiated /\ Has(presigned_data, "urls")

IsGet(c) == c.method = "GET"
IsPost(c) == c.method = "POST"
IsAbort(c) ==
    /\ c.method = "DELETE"
    /\ MultipartNegotiated
    /\ c.url = <<ServerUrl, presigned_data.abort>>
IsComplete(c) ==
    /\ c.method = "PUT"
    /\ MultipartNegotiated
    /\ c.url = <<ServerUrl, presigned_data.complete>>
IsSinglePut(c) == c.method = "PUT" /\ c.url = SingleUrl
IsPartPut(c) == c.method = "PUT" /\ c.url[1] = "s3" /\ c.url # SingleUrl

Count(P(_)) == Cardinality({i \in DOMAIN calls : P(calls[i])})
PartIds == Range(presigned_data.urls)
FullDigest == [type |-> "MD5", value |-> Hexdigest(Md5Update(Md5Init, file))]

\* --------------------------------------------------------------- claims

\* C1: when an upload() call that negotiated a multipart destination has ended
\* (returned or raised), the complete PUT has returned OK or an abort DELETE
\* to the negotiated abort URL has been issued.
C1_CompletedOrAborted ==
    (Ended /\ MultipartNegotiated) =>
        \/ \E i \in DOMAIN calls : IsComplete(calls[i]) /\ AnsweredOK(calls[i])
        \/ \E i \in DOMAIN calls : IsAbort(calls[i])

\* C1 witness: a multipart call ended after a storage response without ETag,
\* with the abort issued and no complete PUT.
C1_Witness ==
    /\ Ended /\ MultipartNegotiated
    /\ \E i \in DOMAIN calls : IsPartPut(calls[i]) /\ Answered(calls[i])
                                 /\ ~HasHeader(calls[i].resp, "ETag")
    /\ Count(IsAbort) = 1
    /\ Count(IsComplete) = 0

\* C2 (as claimed): when the multipart transfer stage has returned and a part
\* PUT was answered with a non-OK status, exactly one abort DELETE was issued
\* and the stage returned a failed result.
C2_PartFailureAborts ==
    (pc = "check" /\ MultipartNegotiated
        /\ \E i \in DOMAIN calls : IsPartPut(calls[i]) /\ AnsweredNotOK(calls[i]))
    => (Count(IsAbort) = 1 /\ upload_meta.status = "FAILED")

\* C3 (as claimed): after a part PUT answered with a non-OK status, the call
\* issues no further part PUT, no complete PUT and no metadata POST.
C3_NothingAfterFailedPart ==
    \A i, j \in DOMAIN calls :
        (i < j /\ IsPartPut(calls[i]) /\ AnsweredNotOK(calls[i]))
        => ~(IsPartPut(calls[j]) \/ IsComplete(calls[j]) \/ IsPost(calls[j]))

C5_PostIffTransferOK ==
    /\ \A i \in DOMAIN calls : IsPost(calls[i]) =>
          /\ upload_meta.status = "OK"
          /\ i = Len(calls)
          /\ MultipartNegotiated =>
                \E j \in 1..(i - 1) : IsComplete(calls[j]) /\ AnsweredOK(calls[j])
    /\ (Ended /\ upload_meta.status = "OK") => Count(IsPost) = 1
    /\ (Ended /\ upload_meta.status # "OK") => Count(IsPost) = 0

\* C5 witness: a multipart call that ended with the metadata POST issued.
C5_Witness ==
    /\ Ended /\ MultipartNegotiated
    /\ upload_meta.status = "OK"
    /\ Count(IsPost) = 1

\* C6 (as claimed): whenever the transfer stage reports OK, the checksum it
\* returns is the digest of the entire content of the file.
C6_ChecksumOfWholeFile ==
    (pc = "check" /\ upload_meta.status = "OK") => upload_meta.checksum = FullDigest

\* C7: the body of every complete PUT has exactly one member per part index
\* of the negotiation, and the member of index p holds the ETag value, without
\* its surrounding quotes, that the PUT to the URL of part p was answered with.
C7_TokenMap ==
    \A i \in DOMAIN calls : IsComplete(calls[i]) =>
        /\ {m[1] : m \in calls[i].body} = PartIds
        /\ Cardinality(calls[i].body) = Cardinality(PartIds)
        /\ \A m \in calls[i].body :
              \E j \in 1..(i - 1) :
                 /\ IsPartPut(calls[j]) /\ calls[j].url = PartUrl(m[1])
                 /\ Answered(calls[j])
                 /\ \E h \in calls[j].resp.headers :
                       h[1] = "ETag" /\ h[2] = <<Q>> \o m[2] \o <<Q>>

\* C7 witness: a complete PUT for parts listed in another order than 1, 2, ...
C7_Witness ==
    /\ Count(IsComplete) = 1
    /\ Len(presigned_data.urls) >= 2
    /\ presigned_data.urls[1] # 1

\* C8 (as claimed): no exception leaves upload().
C8_NoExceptionLeaves == pc # "raised"

\* C9: a returned result has status "OK" exactly when the negotiation GET was
\* answered OK, the transfer stage reported OK and the metadata POST was
\* answered OK.
C9_OkIffAllOk ==
    pc = "returned" =>
        (file_metadata.status = "OK" <=>
            /\ IsGet(calls[1]) /\ AnsweredOK(calls[1])
            /\ upload_meta.status = "OK"
            /\ \E i \in DOMAIN calls : IsPost(calls[i]) /\ AnsweredOK(calls[i]))

\* C9 witness: a call returned after the metadata POST was rejected.
C9_Witness ==
    /\ pc = "returned"
    /\ upload_meta.status = "OK"
    /\ \E i \in DOMAIN calls : IsPost(calls[i]) /\ AnsweredNotOK(calls[i])

\* C10 (as claimed): the result returned after a successful storage write and
\* a rejected metadata POST has another status than the result returned after
\* a failed storage write (two successive calls of a batch, under SpecBatch).
C10_LinkFailedDistinct ==
    (pc = "returned" /\ Kind = "LinkFailed" /\ prev.kind = "TransferFailed")
    => file_metadata.status # prev.status

\* C11 (as claimed): when a part PUT was rejected and the multipart transfer
\* stage failed, upload() returns the overall status "FAILED".
C11_TransferFailureGivesFailed ==
    (pc = "returned" /\ MultipartNegotiated /\ upload_meta.status = "FAILED"
        /\ \E i \in DOMAIN calls : IsPartPut(calls[i]) /\ AnsweredNotOK(calls[i]))
    => file_metadata.status = "FAILED"

C13_PathMatchesDestination ==
    /\ pc = "single_put" => (Negotiated /\ ~Has(presigned_data, "urls"))
    /\ pc \in {"mp_loop", "mp_rejected", "mp_KeyError", "mp_Exception"}
          => MultipartNegotiated
    /\ MultipartNegotiated =>
          \A i \in DOMAIN calls : calls[i].method = "PUT" =>
              \/ calls[i].url \in {PartUrl(p) : p \in PartIds}
              \/ calls[i].url = <<ServerUrl, presigned_data.complete>>
    /\ (Negotiated /\ ~Has(presigned_data, "urls")) =>
          \A i \in DOMAIN calls :
              \/ IsGet(calls[i])
              \/ IsPost(calls[i])
              \/ calls[i].method = "PUT" /\ calls[i].url = presigned_data.url

\* C13 witness: the transfer stage has returned for a multipart destination of
\* one part URL.
C13_Witness ==
    /\ pc = "check" /\ MultipartNegotiated
    /\ Len(presigned_data.urls) = 1
    /\ Count(IsPartPut) = 1

\* the part index a part PUT was sent to
PartOf(c) == CHOOSE p \in PartIds : PartUrl(p) = c.url

\* the positions of the part PUTs in the log
PartPuts == {i \in DOMAIN calls : IsPartPut(calls[i])}

\* C14 (as claimed): the part PUTs are issued in ascending part-index order
\* 1, 2, 3, ...: the k-th part PUT of the call goes to the URL of index k.
C14_AscendingIndexOrder ==
    \A i \in PartPuts :
        PartOf(calls[i]) = Cardinality({j \in PartPuts : j <= i})

\* C15 (as claimed): the body PUT to the URL of part index p is the bytes of
\* the file from offset (p-1)*partSize up to min(p*partSize, fileSize).
C15_PartBodyIsItsSlice ==
    \A i \in PartPuts :
        LET p == PartOf(calls[i])
            ps == presigned_data.partSize
        IN calls[i].body = SubSeq(file, (p - 1) * ps + 1, Min(p * ps, Len(file)))

\* C16 (as claimed): when the abort DELETE issued after a part response
\* without ETag, or after a rejected complete PUT, itself fails (non-OK answer
\* or transport error), the call still ends by returning the failed result
\* it returns when the abort succeeds: status "ERROR", no exception.
C16_AbortFailureNotEscalated ==
    \A i \in DOMAIN calls :
        (/\ Ended
         /\ i > 1
         /\ IsAbort(calls[i]) /\ ~AnsweredOK(calls[i])
         /\ \/ /\ IsPartPut(calls[i - 1]) /\ Answered(calls[i - 1])
               /\ ~HasHeader(calls[i - 1].resp, "ETag")
            \/ IsComplete(calls[i - 1]) /\ AnsweredNotOK(calls[i - 1]))
        => (pc = "returned" /\ file_metadata.status = "ERROR")

\* C19 (as claimed): at most one abort DELETE is issued per upload() call.
C19_AtMostOneAbort == Count(IsAbort) <= 1

\* C17: the file is open only inside the transfer stage: it is closed while
\* the transfer result is examined, while the metadata POST is made, in every
\* exception handler and once upload() has ended.
C17_FileOpenOnlyInTransfer == f.open => pc \in {"mp_loop", "single_put"}

\* C17 witness: a call that ended with an exception after a part PUT failed
\* at transport level while the file was open.
C17_Witness ==
    /\ pc = "raised" /\ MultipartNegotiated
    /\ \E i \in DOMAIN calls : IsPartPut(calls[i]) /\ Raised(calls[i].resp)
    /\ ~f.open

\* the bodies of the storage PUTs of the log, concatenated in issue order
RECURSIVE StorageBodies(_)
StorageBodies(log) ==
    IF log = <<>> THEN <<>>
    ELSE LET c == log[Len(log)]
             rest == StorageBodies(SubSeq(log, 1, Len(log) - 1))
         IN IF c.method = "PUT" /\ c.url[1] = "s3" THEN rest \o c.body ELSE rest

\* C20: the digest accumulator always holds the digest of the bodies of the
\* storage PUTs issued so far, concatenated in issue order (followed, on the
\* single-part path between the read and the PUT, by the content just read):
\* every chunk is fed once, whatever the answers to the PUTs.
C20_FedEqualsSent ==
    md5sum = Md5Update(Md5Init,
                StorageBodies(calls) \o (IF pc = "single_put" THEN data_file ELSE <<>>))

\* C20 witness: the multipart transfer stage returned after two non-empty
\* parts, the first of them answered with a non-OK status.
C20_Witness ==
    /\ pc = "check" /\ MultipartNegotiated
    /\ Count(IsPartPut) >= 2
    /\ \A i \in PartPuts : calls[i].body # <<>>
    /\ \E i, j \in PartPuts : i < j /\ AnsweredNotOK(calls[i])

\* C18: the record sent by every metadata POST has exactly the entries
\* categories, fileName, mimeType, description, storageIdentifier and checksum;
\* its storageIdentifier is the one of this call's negotiation response and
\* its checksum the one this call's transfer stage returned.
C18_RecordFullyPopulated ==
    \A i \in DOMAIN calls : IsPost(calls[i]) =>
        /\ {m[1] : m \in calls[i].body} =
              {"categories", "fileName", "mimeType", "description",
               "storageIdentifier", "checksum"}
        /\ Cardinality(calls[i].body) = 6
        /\ \E m \in calls[i].body :
              m[1] = "storageIdentifier" /\ m[2] = presigned_data.storageIdentifier
        /\ \E m \in calls[i].body :
              m[1] = "checksum" /\ m[2] = upload_meta.checksum
        /\ \E m \in calls[i].body : m[1] = "categories" /\ m[2] = <<"Data">>

\* C18 witness: a metadata POST of a call that was given no description.
C18_Witness ==
    \E i \in DOMAIN calls :
        /\ IsPost(calls[i])
        /\ \E m \in calls[i].body : m[1] = "description" /\ m[2] = ""

====
